---- MODULE Spec2Model ----
(***************************************************************************)
(* Model of 2020.09/lstm_swesb_text_gen.py: a character-level LSTM text    *)
(* generator.  The script's own code is modelled step by step: the         *)
(* vocabulary builder and windower (get_dataset_and_info), the training    *)
(* pipeline of main (shuffle, batch, fit), and the sampling loop           *)
(* (generate_text).  The framework's numerics are abstracted: weights and  *)
(* the recurrent state are small integers, a score vector is a function    *)
(* from ids to scores.                                                     *)
(*                                                                         *)
(* Characters are code points, abstracted to 1..NumChars (a = 1, b = 2,    *)
(* c = 3).  Python's 0-based ids are kept; Python sequences are TLA+       *)
(* sequences, so Python position p is TLA+ index p + 1.                    *)
(***************************************************************************)
EXTENDS Integers, Sequences, FiniteSets, TLC

(* ------------------------------ bounds -------------------------------- *)
\* Size of the alphabet texts and seed strings are drawn from.
NumChars == 3
\* Longest corpus text enumerated for get_dataset_and_info.
MaxTextLen == 6
\* SEQUENCE_LEN (line 32, 100 in the source) ranges over 1..MaxSeqLen.
MaxSeqLen == 3
\* Longest corpus read by main (a cyclic text abcabc...).
MaxCorpusLen == 8
\* BUFFER_SIZE (line 42, 10000), EPOCHS (line 43, 20), BATCH_SIZE (line 44, 32),
\* scaled down.
BUFFER_SIZE == 2
EPOCHS == 2
BATCH_SIZE == 2
\* num_generate of main's call (line 89 default, 1000), scaled down.
NUM_GENERATE == 2
\* Longest seed string and largest num_generate of a direct generate_text call.
MaxSeedLen == 2
MaxGenerate == 2

Chars == 1..NumChars
\* An absent value is the empty sequence, a present value v is <<v>>.
None == <<>>

VARIABLES
    pc,              \* position of main (or the mode of the specification)
    text,            \* the decoded corpus (line 53)
    SEQUENCE_LEN,    \* line 32
    vocab, char2id, id2char, text_as_ids,   \* lines 54-57
    char_sequences,  \* line 65: the windows
    dataset,         \* line 66: the (X, Y) examples
    epoch,           \* epochs completed by fit
    ds_input,        \* examples (by index) not yet read by the shuffle
    buffer,          \* the shuffle buffer
    batch,           \* the batch being assembled
    batches,         \* the batches handed to the trainer in this epoch
    weights,         \* weights of the training model (None: no such model)
    gen_weights,     \* weights of the batch-size-1 model (None: not built)
    weights_copied,  \* set_weights has run on gen_model
    states,          \* recurrent state of the batch-size-1 model
    gen_pc,          \* position inside generate_text
    model_arg,       \* the model object generate_text was given
    start_string, num_generate,   \* arguments of generate_text
    char_ids,        \* line 92
    Y,               \* line 96: the score vector of the last position
    generated_text,  \* line 90
    fed,             \* history: the inputs given to the model in this call
    drawn,           \* history: the ids drawn in this call
    rand,            \* history: the random numbers used in this call
    states0,         \* history: the recurrent state before the first query
    result,          \* the returned string (None: nothing returned)
    earlier,         \* history: an earlier completed call
    printed          \* line 133

dataVars == <<text, SEQUENCE_LEN, vocab, char2id, id2char, text_as_ids,
              char_sequences, dataset>>
trainVars == <<epoch, ds_input, buffer, batch, batches, weights>>
genModelVars == <<gen_weights, weights_copied, states>>
genVars == <<gen_pc, model_arg, start_string, num_generate, char_ids, Y,
             generated_text, fed, drawn, rand, states0, result>>
vars == <<pc, dataVars, trainVars, genModelVars, genVars, earlier, printed>>

(* ------------------- get_dataset_and_info (lines 47-73) ---------------- *)
SetOf(s) == {s[i] : i \in DOMAIN s}

\* sorted(S), line 54, mutated: descending order.
RECURSIVE SortedDescending(_)
SortedDescending(S) ==
    IF S = {} THEN <<>>
    ELSE LET m == CHOOSE x \in S : \A y \in S : x >= y
         IN  <<m>> \o SortedDescending(S \ {m})

\* sorted(S), line 54: ascending code-point order.
RECURSIVE SortedAscending(_)
SortedAscending(S) ==
    IF S = {} THEN <<>>
    ELSE LET m == CHOOSE x \in S : \A y \in S : x =< y
         IN  <<m>> \o SortedAscending(S \ {m})

Sorted(S) == SortedAscending(S)

\* line 54: vocab = sorted(set(text))
Vocab(t) == Sorted(SetOf(t))

\* line 55, mutated: ids counted from 1 (enumerate(vocab, 1)).
Char2IdFromOne(v) ==
    [c \in SetOf(v) |-> CHOOSE i \in DOMAIN v : v[i] = c /\ \A j \in DOMAIN v : v[j] = c => j =< i]

\* line 55: {c: i for i, c in enumerate(vocab)}; a later entry of the same
\* key overwrites an earlier one.
Char2Id(v) ==
    [c \in SetOf(v) |->
        (CHOOSE i \in DOMAIN v : v[i] = c /\ \A j \in DOMAIN v : v[j] = c => j =< i) - 1]

\* line 56: id2char = np.array(vocab), indexed from 0.
Id2Char(v) == [i \in 0..(Len(v) - 1) |-> v[i + 1]]

\* line 57: [char2id[c] for c in text]
TextAsIds(m, t) == [p \in 1..Len(t) |-> m[t[p]]]

\* line 65, mutated: batch(n) without drop_remainder keeps the short last chunk.
RECURSIVE BatchKeepRemainder(_, _)
BatchKeepRemainder(s, n) ==
    IF Len(s) = 0 THEN <<>>
    ELSE IF Len(s) < n THEN <<s>>
    ELSE <<SubSeq(s, 1, n)>> \o BatchKeepRemainder(SubSeq(s, n + 1, Len(s)), n)

\* line 65: batch(n, drop_remainder=True): consecutive chunks of n elements,
\* a final shorter chunk dropped.
RECURSIVE BatchDropRemainder(_, _)
BatchDropRemainder(s, n) ==
    IF Len(s) < n THEN <<>>
    ELSE <<SubSeq(s, 1, n)>> \o BatchDropRemainder(SubSeq(s, n + 1, Len(s)), n)

CharSequences(ids, n) == BatchDropRemainder(ids, n)

\* lines 59-62, mutated: Y is not shifted.
SeqToSupervisedNoShift(seq) ==
    [X |-> SubSeq(seq, 1, Len(seq) - 1), Y |-> SubSeq(seq, 1, Len(seq) - 1)]

\* lines 59-62: X = seq[:-1], Y = seq[1:]
SeqToSupervised(seq) ==
    [X |-> SubSeq(seq, 1, Len(seq) - 1), Y |-> SubSeq(seq, 2, Len(seq))]

\* line 66: char_sequences.map(seq_to_supervised)
MapSupervised(cs) == [k \in DOMAIN cs |-> SeqToSupervised(cs[k])]

\* All texts over Chars of length at most n.
SeqsUpTo(n) == UNION {[1..k -> Chars] : k \in 0..n}

\* The corpus of the scenario "abcabcabc".
ScenarioCorpus == <<1, 2, 3, 1, 2, 3, 1, 2, 3>>
Texts == SeqsUpTo(MaxTextLen) \cup {ScenarioCorpus}

\* The cyclic text abcabc... of length n.
CyclicText(n) == [i \in 1..n |-> ((i - 1) % NumChars) + 1]

\* The state before anything has run, for a corpus t and SEQUENCE_LEN l.
Start(t, l) ==
    /\ text = t
    /\ SEQUENCE_LEN = l
    /\ vocab = <<>> /\ char2id = <<>> /\ id2char = <<>> /\ text_as_ids = <<>>
    /\ char_sequences = <<>> /\ dataset = <<>>
    /\ epoch = 0 /\ ds_input = <<>> /\ buffer = {} /\ batch = <<>> /\ batches = <<>>
    /\ weights = None /\ gen_weights = None /\ weights_copied = FALSE /\ states = 0
    /\ gen_pc = "idle" /\ model_arg = "none"
    /\ start_string = <<>> /\ num_generate = 0 /\ char_ids = <<>> /\ Y = <<>>
    /\ generated_text = <<>> /\ fed = <<>> /\ drawn = <<>> /\ rand = <<>>
    /\ states0 = None /\ result = None
    /\ earlier = None /\ printed = None

\* lines 47-73, called at line 105.
GetDatasetAndInfo ==
    /\ pc = "load"
    /\ pc' = "loaded"
    /\ vocab' = Vocab(text)
    /\ char2id' = Char2Id(vocab')
    /\ id2char' = Id2Char(vocab')
    /\ text_as_ids' = TextAsIds(char2id', text)
    /\ char_sequences' = CharSequences(text_as_ids', SEQUENCE_LEN + 1)
    /\ dataset' = MapSupervised(char_sequences')
    /\ UNCHANGED <<text, SEQUENCE_LEN, trainVars, genModelVars, genVars, earlier, printed>>

(* ------------------------ the model (external) ------------------------ *)
\* The weights and the recurrent state are abstracted to 0..NumChars.
Modulus == NumChars + 1
InitialWeights == 0

\* One optimizer update of model.fit (line 124) on one batch.
TrainOnBatch(w, b) == (w + 1) % Modulus

\* One time step of the stateful LSTM (lines 81-84) on input id i.
Step(w, h, i) == (h + i + w + 1) % Modulus

\* The recurrent state after the model has read the ids of s in order,
\* starting from state h (stateful=True: the state is carried over).
RECURSIVE Run(_, _, _)
Run(w, h, s) == IF s = <<>> THEN h ELSE Run(w, Step(w, h, Head(s)), Tail(s))

\* line 96: model(char_ids)[:, -1], the scores of the last position, one per
\* id; entry i + 1 is the score of id i.  h is the state after the last input.
Scores(w, h, v) == [k \in 1..v |-> ((k - 1) + h + w) % v]

\* line 99: tf.random.categorical draws an id from softmax(Y): every id has
\* positive probability, and the id drawn is a function of Y and the random
\* number u.  Here u picks the id with the (u+1)-th highest score.
Categorical(y, u) ==
    CHOOSE i \in 0..(Len(y) - 1) :
        Cardinality({j \in 0..(Len(y) - 1) :
            \/ y[j + 1] > y[i + 1]
            \/ (y[j + 1] = y[i + 1] /\ j < i)}) = u

\* line 91, mutated: the state is left as the last call left it.
KeepStates(h) == h

\* line 91: model.reset_states() zeroes the recurrent state.
ResetStates(h) == 0

(* --------------------------- main: training ---------------------------- *)
\* line 132: the seed string of main ('CHEWIE' in the source), here "ca".
START_STRING == <<3, 1>>

\* line 109, mutated: the emitted element stays in the buffer.
ShuffleKeep(buf, e) == buf

\* line 109: shuffle() removes the element it emits from its buffer.
ShuffleRemove(buf, e) == buf \ {e}

\* line 124, mutated: fit stops after the first epoch.
FitStopsEarly == epoch >= 1

\* line 124: fit(ds, epochs=EPOCHS) ends after EPOCHS epochs.
FitFinished == epoch = EPOCHS

\* lines 109-121: the input pipeline is declared, the training model built
\* and compiled.
BuildModel ==
    /\ pc = "loaded"
    /\ pc' = "fit"
    /\ weights' = <<InitialWeights>>
    /\ UNCHANGED <<dataVars, epoch, ds_input, buffer, batch, batches,
                   genModelVars, genVars, earlier, printed>>

\* line 124: an epoch starts: the dataset is iterated again from its start.
EpochBegin ==
    /\ pc = "fit"
    /\ epoch < EPOCHS
    /\ ~FitFinished
    /\ pc' = "epoch"
    /\ ds_input' = [k \in 1..Len(dataset) |-> k]
    /\ buffer' = {} /\ batch' = <<>> /\ batches' = <<>>
    /\ UNCHANGED <<dataVars, epoch, weights, genModelVars, genVars, earlier, printed>>

\* line 109: shuffle(BUFFER_SIZE) reads its input until the buffer is full.
ShuffleFill ==
    /\ pc = "epoch"
    /\ ds_input # <<>>
    /\ Cardinality(buffer) < BUFFER_SIZE
    /\ buffer' = buffer \cup {Head(ds_input)}
    /\ ds_input' = Tail(ds_input)
    /\ UNCHANGED <<pc, dataVars, epoch, batch, batches, weights,
                   genModelVars, genVars, earlier, printed>>

\* line 109: shuffle emits a random element of its full (or last) buffer,
\* batch(BATCH_SIZE) collects it.
ShuffleEmit ==
    /\ pc = "epoch"
    /\ buffer # {}
    /\ (Cardinality(buffer) >= BUFFER_SIZE \/ ds_input = <<>>)
    /\ Len(batch) < BATCH_SIZE
    /\ \E e \in buffer :
        /\ batch' = Append(batch, e)
        /\ buffer' = ShuffleRemove(buffer, e)
    /\ UNCHANGED <<pc, dataVars, epoch, ds_input, batches, weights,
                   genModelVars, genVars, earlier, printed>>

\* line 124: a full batch is one training step.
TrainStep ==
    /\ pc = "epoch"
    /\ Len(batch) = BATCH_SIZE
    /\ batches' = Append(batches, batch)
    /\ weights' = <<TrainOnBatch(weights[1], batch)>>
    /\ batch' = <<>>
    /\ UNCHANGED <<pc, dataVars, epoch, ds_input, buffer,
                   genModelVars, genVars, earlier, printed>>

\* lines 109, 124: the input is exhausted; drop_remainder=True discards the
\* batch that is not full, and the epoch ends.
EpochEnd ==
    /\ pc = "epoch"
    /\ ds_input = <<>> /\ buffer = {}
    /\ Len(batch) < BATCH_SIZE
    /\ epoch' = epoch + 1
    /\ pc' = "fit"
    /\ UNCHANGED <<dataVars, ds_input, buffer, batch, batches, weights,
                   genModelVars, genVars, earlier, printed>>

\* line 124: an epoch without a single batch: depending on the framework
\* version fit raises ("empty training data") instead of going on.
FitRaises ==
    /\ pc = "epoch"
    /\ ds_input = <<>> /\ buffer = {}
    /\ Len(batch) < BATCH_SIZE
    /\ batches = <<>>
    /\ pc' = "ValueError"
    /\ UNCHANGED <<dataVars, trainVars, genModelVars, genVars, earlier, printed>>

\* line 124 returns.
FitReturn ==
    /\ pc = "fit"
    /\ FitFinished
    /\ pc' = "build_gen"
    /\ UNCHANGED <<dataVars, trainVars, genModelVars, genVars, earlier, printed>>

\* line 129: gen_model = build_model(vocab_size, batch_size=1)
BuildGenModel ==
    /\ pc = "build_gen"
    /\ pc' = "set_weights"
    /\ gen_weights' = <<InitialWeights>>
    /\ states' = 0
    /\ UNCHANGED <<dataVars, trainVars, weights_copied, genVars, earlier, printed>>

\* line 130: gen_model.set_weights(model.get_weights())
SetWeights ==
    /\ pc = "set_weights"
    /\ pc' = "del"
    /\ gen_weights' = weights
    /\ weights_copied' = TRUE
    /\ UNCHANGED <<dataVars, trainVars, states, genVars, earlier, printed>>

\* line 131: del model
DelModel ==
    /\ pc = "del"
    /\ pc' = "generate"
    /\ weights' = None
    /\ UNCHANGED <<dataVars, epoch, ds_input, buffer, batch, batches,
                   genModelVars, genVars, earlier, printed>>

(* ----------------------- generate_text (89-101) ------------------------ *)
\* lines 89-90: the call binds its arguments and empties generated_text.
Enter(seed, n) ==
    /\ gen_pc' = "reset"
    /\ model_arg' = "gen_model"
    /\ start_string' = seed
    /\ num_generate' = n
    /\ generated_text' = <<>>
    /\ char_ids' = <<>> /\ Y' = <<>>
    /\ fed' = <<>> /\ drawn' = <<>> /\ rand' = <<>>
    /\ states0' = None /\ result' = None

\* line 132: res = generate_text(gen_model, 'CHEWIE', char2id, id2char)
MainGenerate ==
    /\ pc = "generate"
    /\ pc' = "sampling"
    /\ Enter(START_STRING, NUM_GENERATE)
    /\ UNCHANGED <<dataVars, trainVars, genModelVars, earlier, printed>>

\* line 91: model.reset_states()
GenReset ==
    /\ gen_pc = "reset"
    /\ gen_pc' = "encode"
    /\ states' = ResetStates(states)
    /\ UNCHANGED <<pc, dataVars, trainVars, gen_weights, weights_copied,
                   model_arg, start_string, num_generate, char_ids, Y,
                   generated_text, fed, drawn, rand, states0, result,
                   earlier, printed>>

\* line 92, mutated: characters without an id are skipped.
EncodeSeedSkipUnknown(m, s) ==
    LET known == SelectSeq(s, LAMBDA c : c \in DOMAIN m)
    IN  [ok |-> TRUE, ids |-> [p \in 1..Len(known) |-> m[known[p]]]]

\* line 92: [char2id[c] for c in start_string]; a character that is no key
\* of char2id raises KeyError.
EncodeSeed(m, s) ==
    IF \E p \in 1..Len(s) : s[p] \notin DOMAIN m
    THEN [ok |-> FALSE, ids |-> <<>>]
    ELSE [ok |-> TRUE, ids |-> [p \in 1..Len(s) |-> m[s[p]]]]

\* line 92
GenEncode ==
    /\ gen_pc = "encode"
    /\ LET enc == EncodeSeed(char2id, start_string)
       IN  /\ gen_pc' = IF enc.ok THEN "loop" ELSE "KeyError"
           /\ char_ids' = enc.ids
    /\ UNCHANGED <<pc, dataVars, trainVars, genModelVars, model_arg,
                   start_string, num_generate, Y, generated_text, fed, drawn,
                   rand, states0, result, earlier, printed>>

\* line 93, mutated: one iteration too many (range(num_generate + 1)).
LoopContinuesOnceMore == Len(generated_text) =< num_generate

\* line 93: for _ in range(num_generate); generated_text grows by one per
\* iteration, so its length is the iteration count.
LoopContinues == Len(generated_text) < num_generate

\* line 96: model(char_ids)[:, -1].  An empty input has no last position:
\* the call raises.
GenQuery ==
    /\ gen_pc = "loop"
    /\ LoopContinues
    /\ IF char_ids = <<>>
       THEN /\ gen_pc' = "QueryError"
            /\ UNCHANGED <<states, Y, fed, states0>>
       ELSE /\ gen_pc' = "sample"
            /\ states' = Run(gen_weights[1], states, char_ids)
            /\ Y' = Scores(gen_weights[1], states', Len(vocab))
            /\ fed' = Append(fed, char_ids)
            /\ states0' = IF fed = <<>> THEN <<states>> ELSE states0
    /\ UNCHANGED <<pc, dataVars, trainVars, gen_weights, weights_copied,
                   model_arg, start_string, num_generate, char_ids,
                   generated_text, drawn, rand, result, earlier, printed>>

\* lines 93-100: char_ids is not assigned in the loop, so the next iteration
\* is given the same input again.
NextInput(ids, pred) == ids

\* lines 99-100: draw an id, decode it, append it.
GenSample ==
    /\ gen_pc = "sample"
    /\ gen_pc' = "loop"
    /\ \E u \in 0..(Len(Y) - 1) :
        LET pred_id == Categorical(Y, u)
        IN  /\ generated_text' = Append(generated_text, id2char[pred_id])
            /\ drawn' = Append(drawn, pred_id)
            /\ rand' = Append(rand, u)
            /\ char_ids' = NextInput(char_ids, pred_id)
    /\ UNCHANGED <<pc, dataVars, trainVars, genModelVars, model_arg,
                   start_string, num_generate, Y, fed, states0, result,
                   earlier, printed>>

\* line 101: return start_string + ''.join(generated_text)
GenReturn ==
    /\ gen_pc = "loop"
    /\ ~LoopContinues
    /\ gen_pc' = "returned"
    /\ result' = <<start_string \o generated_text>>
    /\ UNCHANGED <<pc, dataVars, trainVars, genModelVars, model_arg,
                   start_string, num_generate, char_ids, Y, generated_text,
                   fed, drawn, rand, states0, earlier, printed>>

\* line 133: print(res)
MainPrint ==
    /\ pc = "sampling"
    /\ gen_pc = "returned"
    /\ pc' = "done"
    /\ printed' = result
    /\ UNCHANGED <<dataVars, trainVars, genModelVars, genVars, earlier>>

\* What a completed call is remembered by.
CallRecord ==
    [seed |-> start_string, n |-> num_generate, rand |-> rand,
     weights |-> gen_weights, text |-> result[1]]

\* generate_text is called on the batch-size-1 model by some caller.
GenCall ==
    /\ pc = "sampler"
    /\ gen_pc = "idle"
    /\ \E seed \in SeqsUpTo(MaxSeedLen), n \in 0..MaxGenerate : Enter(seed, n)
    /\ UNCHANGED <<pc, dataVars, trainVars, genModelVars, earlier, printed>>

\* The call is over (it returned or raised): its locals are gone, the model
\* keeps its recurrent state, and the caller may keep a returned text.
GenExit ==
    /\ pc = "sampler"
    /\ gen_pc \in {"returned", "KeyError", "QueryError"}
    /\ gen_pc' = "idle"
    /\ model_arg' = "none"
    /\ start_string' = <<>> /\ num_generate' = 0 /\ char_ids' = <<>> /\ Y' = <<>>
    /\ generated_text' = <<>> /\ fed' = <<>> /\ drawn' = <<>> /\ rand' = <<>>
    /\ states0' = None /\ result' = None
    /\ \/ UNCHANGED earlier
       \/ gen_pc = "returned" /\ earlier' = <<CallRecord>>
    /\ UNCHANGED <<pc, dataVars, trainVars, genModelVars, printed>>

(* --------------------------- specifications ---------------------------- *)
InitData ==
    /\ pc = "load"
    /\ \E t \in Texts, l \in 1..MaxSeqLen : Start(t, l)

NextData == GetDatasetAndInfo

SpecData == InitData /\ [][NextData]_vars

\* main (lines 104-133) on a corpus abcabc... of any length up to MaxCorpusLen.
Init ==
    /\ pc = "load"
    /\ \E n \in 0..MaxCorpusLen, l \in 1..MaxSeqLen : Start(CyclicText(n), l)

Next ==
    \/ GetDatasetAndInfo
    \/ BuildModel
    \/ EpochBegin
    \/ ShuffleFill
    \/ ShuffleEmit
    \/ TrainStep
    \/ EpochEnd
    \/ FitRaises
    \/ FitReturn
    \/ BuildGenModel
    \/ SetWeights
    \/ DelModel
    \/ MainGenerate
    \/ GenReset
    \/ GenEncode
    \/ GenQuery
    \/ GenSample
    \/ GenReturn
    \/ MainPrint

Spec == Init /\ [][Next]_vars

\* The corpus "bab" behind the sampler's vocabulary: c and later characters
\* are not in it.
GenCorpus == <<2, 1, 2>>

\* generate_text called any number of times on one batch-size-1 model.
InitGen ==
    /\ pc = "sampler"
    /\ \E w \in 0..1 :
        LET t == GenCorpus IN
        /\ text = t
        /\ SEQUENCE_LEN = 1
        /\ vocab = Vocab(t)
        /\ char2id = Char2Id(vocab)
        /\ id2char = Id2Char(vocab)
        /\ text_as_ids = TextAsIds(char2id, t)
        /\ char_sequences = CharSequences(text_as_ids, SEQUENCE_LEN + 1)
        /\ dataset = MapSupervised(char_sequences)
        /\ gen_weights = <<w>>
    /\ epoch = 0 /\ ds_input = <<>> /\ buffer = {} /\ batch = <<>> /\ batches = <<>>
    /\ weights = None /\ weights_copied = TRUE /\ states = 0
    /\ gen_pc = "idle" /\ model_arg = "none"
    /\ start_string = <<>> /\ num_generate = 0 /\ char_ids = <<>> /\ Y = <<>>
    /\ generated_text = <<>> /\ fed = <<>> /\ drawn = <<>> /\ rand = <<>>
    /\ states0 = None /\ result = None
    /\ earlier = None /\ printed = None

NextGen ==
    \/ GenCall
    \/ GenExit
    \/ GenReset
    \/ GenEncode
    \/ GenQuery
    \/ GenSample
    \/ GenReturn

SpecGen == InitGen /\ [][NextGen]_vars

(* ------------------------------- claims -------------------------------- *)
Loaded == pc = "loaded"
NumWindows == Len(char_sequences)
WindowLen == SEQUENCE_LEN + 1

\* C3: the windower yields exactly floor(n / (L+1)) windows; window k
\* (0-based) holds the ids at text positions k*(L+1) .. k*(L+1)+L in source
\* order, so windows are consecutive and do not overlap, and the trailing
\* n mod (L+1) ids are in no window.
C3_Windows ==
    Loaded =>
        /\ NumWindows = Len(text_as_ids) \div WindowLen
        /\ \A k \in 0..(NumWindows - 1) :
            /\ Len(char_sequences[k + 1]) = WindowLen
            /\ \A j \in 0..SEQUENCE_LEN :
                char_sequences[k + 1][j + 1] = text_as_ids[k * WindowLen + j + 1]

\* C3 witness: at least two windows and a dropped remainder.
C3_Witness ==
    /\ Loaded
    /\ NumWindows >= 2
    /\ Len(text_as_ids) % WindowLen # 0

\* C4: every example (X, Y) has len(X) = len(Y) = SEQUENCE_LEN, X is its
\* window without the last id, Y its window without the first id, and
\* Y[i] = X[i+1] for 0 <= i < SEQUENCE_LEN - 1.
C4_ShiftByOne ==
    Loaded =>
        /\ Len(dataset) = NumWindows
        /\ \A k \in DOMAIN dataset :
            LET X == dataset[k].X
                Yk == dataset[k].Y
            IN  /\ Len(X) = SEQUENCE_LEN
                /\ Len(Yk) = SEQUENCE_LEN
                /\ \A i \in 1..SEQUENCE_LEN :
                    /\ X[i] = char_sequences[k][i]
                    /\ Yk[i] = char_sequences[k][i + 1]
                /\ \A i \in 1..(SEQUENCE_LEN - 1) : Yk[i] = X[i + 1]

\* C4 witness: an example of length at least 2 whose X and Y differ.
C4_Witness ==
    /\ Loaded
    /\ SEQUENCE_LEN >= 2
    /\ \E k \in DOMAIN dataset : dataset[k].X # dataset[k].Y

\* C5: the vocabulary holds each character of the text exactly once and
\* nothing else, in ascending code order; char2id maps it one-to-one onto
\* 0..vocab_size-1 in that order, id2char is its inverse, and text_as_ids is
\* the text encoded position by position.
C5_Vocabulary ==
    Loaded =>
        LET V == Len(vocab) IN
        /\ SetOf(vocab) = SetOf(text)
        /\ \A i, j \in 1..V : i < j => vocab[i] < vocab[j]
        /\ DOMAIN char2id = SetOf(vocab)
        /\ {char2id[c] : c \in DOMAIN char2id} = 0..(V - 1)
        /\ \A i \in 1..V : char2id[vocab[i]] = i - 1
        /\ DOMAIN id2char = 0..(V - 1)
        /\ \A c \in SetOf(vocab) : id2char[char2id[c]] = c
        /\ \A i \in 0..(V - 1) : char2id[id2char[i]] = i
        /\ Len(text_as_ids) = Len(text)
        /\ \A p \in 1..Len(text) : text_as_ids[p] = char2id[text[p]]

\* C5 witness: a text that is not sorted and repeats a character.
C5_Witness ==
    /\ Loaded
    /\ Len(vocab) >= 2
    /\ Len(text) > Len(vocab)
    /\ text[1] > text[2]

Scenario == Loaded /\ text = ScenarioCorpus /\ SEQUENCE_LEN = 3

\* C6 as stated: for "abcabcabc" and SEQUENCE_LEN = 3 the vocabulary is
\* a, b, c with ids 0, 1, 2, the encoded text is [0,1,2,0,1,2,0,1,2], and the
\* windower produces one window, [0,1,2,0], giving X = [0,1,2], Y = [1,2,0].
C6_OneWindow ==
    Scenario =>
        /\ vocab = <<1, 2, 3>>
        /\ char2id = (1 :> 0) @@ (2 :> 1) @@ (3 :> 2)
        /\ text_as_ids = <<0, 1, 2, 0, 1, 2, 0, 1, 2>>
        /\ char_sequences = << <<0, 1, 2, 0>> >>
        /\ dataset = << [X |-> <<0, 1, 2>>, Y |-> <<1, 2, 0>>] >>

\* C6 amended: for "abcabcabc" and SEQUENCE_LEN = 3 the vocabulary and the
\* encoded text are as stated, and the windower produces two windows,
\* [0,1,2,0] and [1,2,0,1], giving (X, Y) = ([0,1,2], [1,2,0]) and
\* ([1,2,0], [2,0,1]); only the ninth id is dropped.
C6_TwoWindows ==
    Scenario =>
        /\ vocab = <<1, 2, 3>>
        /\ char2id = (1 :> 0) @@ (2 :> 1) @@ (3 :> 2)
        /\ text_as_ids = <<0, 1, 2, 0, 1, 2, 0, 1, 2>>
        /\ char_sequences = << <<0, 1, 2, 0>>, <<1, 2, 0, 1>> >>
        /\ dataset = << [X |-> <<0, 1, 2>>, Y |-> <<1, 2, 0>>],
                        [X |-> <<1, 2, 0>>, Y |-> <<2, 0, 1>>] >>

\* C6 witness: the scenario has been windowed.
C6_Witness == Scenario /\ dataset # <<>>

InCall == gen_pc # "idle"
SeedInVocabulary == \A p \in 1..Len(start_string) : start_string[p] \in SetOf(vocab)
EncodedSeed == [p \in 1..Len(start_string) |-> char2id[start_string[p]]]
Decoded(ids) == [k \in 1..Len(ids) |-> id2char[ids[k]]]

\* C1 as stated: the first query is given the whole encoded seed, and query
\* k >= 2 is given only the id drawn in iteration k-1.
C1_DrawnIdIsNextInput ==
    SeedInVocabulary =>
        \A k \in DOMAIN fed :
            /\ k = 1 => fed[k] = EncodedSeed
            /\ k >= 2 => fed[k] = <<drawn[k - 1]>>

\* C2 as stated: for every seed over the vocabulary and every N >= 0 the call
\* does not raise, queries the model and draws exactly N times, and returns
\* the seed followed by the N decoded characters in draw order.
C2_AnySeed ==
    (InCall /\ SeedInVocabulary) =>
        /\ gen_pc \notin {"KeyError", "QueryError"}
        /\ gen_pc = "returned" =>
            /\ Len(fed) = num_generate
            /\ Len(drawn) = num_generate
            /\ result = <<start_string \o Decoded(drawn)>>

\* C2 amended: for every non-empty seed over the vocabulary and every
\* N >= 0, and for the empty seed with N = 0, the call does not raise,
\* queries the model and draws exactly N times and returns the seed followed
\* by the N decoded characters in draw order (length len(seed) + N; for N = 0
\* the seed unchanged); for the empty seed with N >= 1 it raises at its first
\* query, having drawn and returned nothing.
C2_NonEmptySeed ==
    /\ (InCall /\ SeedInVocabulary /\ (start_string # <<>> \/ num_generate = 0)) =>
        /\ gen_pc \notin {"KeyError", "QueryError"}
        /\ Len(fed) =< num_generate
        /\ Len(drawn) =< Len(fed)
        /\ generated_text = Decoded(drawn)
        /\ gen_pc = "returned" =>
            /\ Len(fed) = num_generate
            /\ Len(drawn) = num_generate
            /\ result = <<start_string \o Decoded(drawn)>>
            /\ Len(result[1]) = Len(start_string) + num_generate
            /\ SubSeq(result[1], 1, Len(start_string)) = start_string
            /\ num_generate = 0 => result = <<start_string>>
    /\ (InCall /\ start_string = <<>> /\ num_generate >= 1) =>
        /\ gen_pc \in {"reset", "encode", "loop", "QueryError"}
        /\ fed = <<>> /\ drawn = <<>> /\ result = None

\* C2 witness: a call with a non-empty seed has returned after the largest
\* number of draws.
C2_Witness ==
    /\ pc = "sampler"
    /\ gen_pc = "returned"
    /\ start_string # <<>>
    /\ num_generate = MaxGenerate

\* C7: a seed with a character outside the vocabulary makes the call fail
\* with a lookup error while the seed is encoded: the call gets no further
\* than the encoding, the model is never queried, no id is drawn and no text
\* is returned, whatever N is.
C7_UnknownCharacter ==
    (InCall /\ ~SeedInVocabulary) =>
        /\ gen_pc \in {"reset", "encode", "KeyError"}
        /\ fed = <<>>
        /\ drawn = <<>>
        /\ generated_text = <<>>
        /\ result = None

\* C7 witness: the lookup error, for a seed that starts with a vocabulary
\* character, with N = 0.
C7_Witness ==
    /\ gen_pc = "KeyError"
    /\ Len(start_string) >= 2
    /\ start_string[1] \in SetOf(vocab)
    /\ num_generate = 0

SameInputsAsEarlier ==
    /\ earlier # None
    /\ earlier[1].seed = start_string
    /\ earlier[1].n = num_generate
    /\ earlier[1].rand = rand
    /\ earlier[1].weights = gen_weights

\* C8: the recurrent state the first query of a call starts from is the
\* reset state, and a call that returns after the same seed, weights, N and
\* random draws as an earlier call on the same model returns the same text.
C8_RunsIndependent ==
    /\ fed # <<>> => states0 = <<0>>
    /\ (gen_pc = "returned" /\ SameInputsAsEarlier) => result[1] = earlier[1].text

\* C8 witness: a call with at least one draw repeats an earlier call.
C8_Witness ==
    /\ gen_pc = "returned"
    /\ SameInputsAsEarlier
    /\ num_generate >= 1

NumExamples == Len(dataset)
EpochRan == pc \notin {"load", "loaded"} /\ ~(pc = "fit" /\ epoch = 0)
EpochOver == pc = "fit" /\ epoch >= 1
Count(s, e) == Cardinality({i \in DOMAIN s : s[i] = e})
CountInBatches(e) == Cardinality({<<b, i>> \in (DOMAIN batches) \X (1..BATCH_SIZE) :
                                    i \in DOMAIN batches[b] /\ batches[b][i] = e})

C10_PhasesOrdered ==
    /\ InCall =>
        /\ pc \in {"sampling", "done"}
        /\ epoch = EPOCHS
        /\ weights_copied
        /\ gen_weights = <<(EPOCHS * (NumExamples \div BATCH_SIZE)) % Modulus>>
        /\ model_arg = "gen_model"
        /\ weights = None
    /\ fed # <<>> => InCall
    /\ printed # None =>
        /\ pc = "done"
        /\ gen_pc = "returned"
        /\ Len(generated_text) = num_generate
        /\ printed = result

\* C10 witness: main has printed a text made of NUM_GENERATE model queries.
C10_Witness ==
    /\ pc = "done"
    /\ printed # None
    /\ Len(fed) = NUM_GENERATE

====
